---- MODULE Spec2Model ----
(***************************************************************************)
(* Model of netshare/utils/field.py: the three field codecs                *)
(* (ContinuousField, DiscreteField, BitField), their normalize and         *)
(* denormalize methods and their getOutputType descriptors.                *)
(*                                                                         *)
(* A state is one field object (immutable after construction) together     *)
(* with the last method call made on it: the method, its argument and its  *)
(* outcome (a returned value or the exception raised).                     *)
(*                                                                         *)
(* Numbers are exact: a real is a pair <<n, d>> in lowest terms with       *)
(* d > 0; the three non-finite values numpy produces are <<0,0>> (nan),    *)
(* <<1,0>> (inf) and <<-1,0>> (-inf).                                      *)
(***************************************************************************)
EXTENDS Integers, Sequences, FiniteSets

VARIABLES field, op, arg, res, orig

vars == <<field, op, arg, res, orig>>

(***************************************************************************)
(* Bounds of the model.                                                    *)
(***************************************************************************)
MaxNum == 2        \* min_x, max_x and array entries range over -MaxNum..MaxNum
MaxDim == 2        \* dim_x ranges over 1..MaxDim, array lengths over 0..MaxDim
MaxChoices == 3    \* a vocabulary has 1..MaxChoices labels
MaxBatch == 2      \* a list handed to DiscreteField.normalize has 1..MaxBatch items
MaxScore == 1      \* entries of an encoded row or list range over 0..MaxScore
MaxBits == 4       \* num_bits ranges over 1..MaxBits

(***************************************************************************)
(* Exact arithmetic with numpy's non-finite values.                        *)
(***************************************************************************)
Abs(n) == IF n < 0 THEN -n ELSE n

Sgn(n) == IF n < 0 THEN -1 ELSE IF n = 0 THEN 0 ELSE 1

RECURSIVE GCD(_, _)
GCD(a, b) == IF b = 0 THEN a ELSE GCD(b, a % b)

\* the number n/d; a zero denominator gives nan, inf or -inf by the sign of n
Num(n, d) ==
    IF d = 0 THEN <<Sgn(n), 0>>
    ELSE LET g == GCD(Abs(n), Abs(d))
             s == Sgn(d)
         IN  <<(s * n) \div g, (s * d) \div g>>

FromInt(n) == <<n, 1>>

NaN == <<0, 0>>

IsFinite(a) == a[2] # 0

IsNaN(a) == a = NaN

FNeg(a) == <<-a[1], a[2]>>

FAdd(a, b) ==
    IF IsNaN(a) \/ IsNaN(b) THEN NaN
    ELSE IF ~IsFinite(a) /\ ~IsFinite(b) THEN (IF a = b THEN a ELSE NaN)
    ELSE IF ~IsFinite(a) THEN a
    ELSE IF ~IsFinite(b) THEN b
    ELSE Num(a[1] * b[2] + b[1] * a[2], a[2] * b[2])

FSub(a, b) == FAdd(a, FNeg(b))

FMul(a, b) == Num(a[1] * b[1], a[2] * b[2])

\* a / b as numpy divides: x/0 is inf, -inf or nan (a warning, no exception)
FDiv(a, b) == FMul(a, Num(b[2], b[1]))

FLeq(a, b) == a[1] * b[2] <= b[1] * a[2]

FLess(a, b) == a[1] * b[2] < b[1] * a[2]

(***************************************************************************)
(* Outcomes of a call.                                                     *)
(***************************************************************************)
Return(v) == [err |-> "none", val |-> v]

Raise(e) == [err |-> e, val |-> <<>>]

Returned(r) == r.err = "none"

(***************************************************************************)
(* ContinuousField                                                         *)
(***************************************************************************)
\* the members of Normalization, and one value that is neither
NormOptions == {"ZERO_ONE", "MINUSONE_ONE", "INVALID"}

\* the constructor returns the new object
NewContinuousField(norm_option, min_x, max_x, dim_x, name) ==
    Return([cls |-> "ContinuousField", name |-> name,
            norm_option |-> norm_option,
            min_x |-> min_x, max_x |-> max_x, dim_x |-> dim_x])

\* a variant of normalize that looks at the option before the dimension
ContinuousNormalizeOptionFirst(self, x) ==
    IF self.norm_option \notin {"ZERO_ONE", "MINUSONE_ONE"} THEN Raise("Exception")
    ELSE IF Len(x) # self.dim_x THEN Raise("ValueError")
    ELSE IF self.norm_option = "ZERO_ONE" THEN
        Return([i \in 1..Len(x) |->
            FDiv(FSub(x[i], self.min_x), FSub(self.max_x, self.min_x))])
    ELSE
        Return([i \in 1..Len(x) |->
            FSub(FDiv(FMul(FromInt(2), FSub(x[i], self.min_x)),
                      FSub(self.max_x, self.min_x)),
                 FromInt(1))])

\* x is a one-dimensional array: x.shape[-1] is its length
ContinuousNormalize(self, x) ==
    IF Len(x) # self.dim_x THEN Raise("ValueError")
    ELSE IF self.norm_option = "ZERO_ONE" THEN
        Return([i \in 1..Len(x) |->
            FDiv(FSub(x[i], self.min_x), FSub(self.max_x, self.min_x))])
    ELSE IF self.norm_option = "MINUSONE_ONE" THEN
        Return([i \in 1..Len(x) |->
            FSub(FDiv(FMul(FromInt(2), FSub(x[i], self.min_x)),
                      FSub(self.max_x, self.min_x)),
                 FromInt(1))])
    ELSE Raise("Exception")

\* a variant of denormalize whose [-1, 1] branch does not halve
ContinuousDenormalizeNoHalving(self, norm_x) ==
    IF Len(norm_x) # self.dim_x THEN Raise("ValueError")
    ELSE IF self.norm_option = "ZERO_ONE" THEN
        Return([i \in 1..Len(norm_x) |->
            FAdd(FMul(norm_x[i], FSub(self.max_x, self.min_x)), self.min_x)])
    ELSE IF self.norm_option = "MINUSONE_ONE" THEN
        Return([i \in 1..Len(norm_x) |->
            FAdd(FMul(FAdd(norm_x[i], FromInt(1)),
                      FSub(self.max_x, self.min_x)),
                 self.min_x)])
    ELSE Raise("Exception")

ContinuousDenormalize(self, norm_x) ==
    IF Len(norm_x) # self.dim_x THEN Raise("ValueError")
    ELSE IF self.norm_option = "ZERO_ONE" THEN
        Return([i \in 1..Len(norm_x) |->
            FAdd(FMul(norm_x[i], FSub(self.max_x, self.min_x)), self.min_x)])
    ELSE IF self.norm_option = "MINUSONE_ONE" THEN
        Return([i \in 1..Len(norm_x) |->
            FAdd(FMul(FDiv(FAdd(norm_x[i], FromInt(1)), FromInt(2)),
                      FSub(self.max_x, self.min_x)),
                 self.min_x)])
    ELSE Raise("Exception")

ContinuousGetOutputType(self) ==
    [type_ |-> "CONTINUOUS", dim |-> self.dim_x,
     normalization |-> self.norm_option]

(***************************************************************************)
(* DiscreteField                                                           *)
(***************************************************************************)
\* choices is [is_list |-> BOOLEAN, v |-> a sequence of labels]: a list, or
\* a sequence of another type (a tuple), which the constructor refuses
NewDiscreteField(choices, name) ==
    IF ~choices.is_list THEN Raise("Exception")
    ELSE Return([cls |-> "DiscreteField", name |-> name,
                 choices |-> choices.v, dim_x |-> Len(choices.v)])

\* a variant of the category code that files an unknown value under the
\* first category
CategoryCodeNoMissing(categories, v) ==
    IF \E j \in 1..Len(categories) : categories[j] = v
    THEN (CHOOSE j \in 1..Len(categories) : categories[j] = v) - 1
    ELSE 0

\* astype(CategoricalDtype(categories)): the position of v among the
\* categories, counted from 0, and -1 (missing) for a value that is none
CategoryCode(categories, v) ==
    IF \E j \in 1..Len(categories) : categories[j] = v
    THEN (CHOOSE j \in 1..Len(categories) : categories[j] = v) - 1
    ELSE -1

\* pd.get_dummies of one categorical column: one indicator column for each
\* category, in category order; a missing value sets no column
GetDummies(codes, ncat) ==
    [r \in 1..Len(codes) |->
        [j \in 1..ncat |-> IF codes[r] = j - 1 THEN 1 ELSE 0]]

\* x is [is_list |-> BOOLEAN, v |-> a label or a sequence of labels]
DiscreteNormalize(self, x) ==
    LET norm_x == IF ~x.is_list THEN <<x.v>> ELSE x.v
        codes == [r \in 1..Len(norm_x) |-> CategoryCode(self.choices, norm_x[r])]
        dummies == GetDummies(codes, Len(self.choices))
    IN  IF ~x.is_list THEN Return([ndim |-> 1, v |-> dummies[1]])
        ELSE Return([ndim |-> 2, v |-> dummies])

\* a variant of argmax that breaks ties by the highest position
ArgMaxLast(a) ==
    (CHOOSE i \in 1..Len(a) :
        /\ \A j \in 1..Len(a) : a[j] <= a[i]
        /\ \A j \in (i + 1)..Len(a) : a[j] < a[i]) - 1

\* np.argmax of a non-empty one-dimensional array: the first position,
\* counted from 0, that holds the maximum
ArgMax(a) ==
    (CHOOSE i \in 1..Len(a) :
        /\ \A j \in 1..Len(a) : a[j] <= a[i]
        /\ \A j \in 1..(i - 1) : a[j] < a[i]) - 1

\* norm_x is [ndim |-> 1, v |-> a row] or [ndim |-> 2, v |-> a sequence of rows]
DiscreteDenormalize(self, norm_x) ==
    LET rows == IF norm_x.ndim = 1 THEN <<norm_x.v>> ELSE norm_x.v
    IN  IF \E r \in 1..Len(rows) : Len(rows[r]) = 0 THEN Raise("ValueError")
        ELSE LET index == [r \in 1..Len(rows) |-> ArgMax(rows[r])]
             IN  IF \E r \in 1..Len(rows) : index[r] >= Len(self.choices)
                 THEN Raise("IndexError")
                 ELSE IF norm_x.ndim = 1
                      THEN Return(self.choices[index[1] + 1])
                      ELSE Return([r \in 1..Len(rows) |->
                                      self.choices[index[r] + 1]])

DiscreteGetOutputType(self) ==
    [type_ |-> "DISCRETE", dim |-> Len(self.choices), normalization |-> "None"]

(***************************************************************************)
(* BitField                                                                *)
(***************************************************************************)
NewBitField(num_bits, name) ==
    Return([cls |-> "BitField", name |-> name,
            num_bits |-> num_bits, dim_x |-> num_bits * 2])

RECURSIVE Pow2(_)
Pow2(n) == IF n = 0 THEN 1 ELSE 2 * Pow2(n - 1)

\* the binary digits of n >= 0, most significant first, no leading zero
RECURSIVE Digits(_)
Digits(n) ==
    IF n < 2 THEN <<IF n = 0 THEN "0" ELSE "1">>
    ELSE Append(Digits(n \div 2), IF n % 2 = 0 THEN "0" ELSE "1")

\* bin(n): "0b..." for n >= 0 and "-0b..." for n < 0, as a sequence of characters
Bin(n) ==
    IF n < 0 THEN <<"-", "0", "b">> \o Digits(-n)
    ELSE <<"0", "b">> \o Digits(n)

\* s[k:] for a string s
StrFrom(s, k) == SubSeq(s, k + 1, Len(s))

\* a variant of zfill that pads on the right
ZFillRight(s, width) ==
    IF Len(s) >= width THEN s
    ELSE s \o [i \in 1..(width - Len(s)) |-> "0"]

\* str.zfill(width): zeros are put on the left (after a leading sign) until
\* the string has width characters; a longer string is returned as it is
ZFill(s, width) ==
    IF Len(s) >= width THEN s
    ELSE LET pad == [i \in 1..(width - Len(s)) |-> "0"]
         IN  IF Len(s) > 0 /\ s[1] \in {"+", "-"}
             THEN <<s[1]>> \o pad \o StrFrom(s, 1)
             ELSE pad \o s

\* [int(b) for b in bin_x] for a string of binary digits
BitInts(bin_x) == [i \in 1..Len(bin_x) |-> IF bin_x[i] = "0" THEN 0 ELSE 1]

\* the loop of normalize over the bits: [1.0, 0.0] is appended for a 0,
\* [0.0, 1.0] for a 1, and nothing (a message is printed) for anything else
RECURSIVE BitPairs(_)
BitPairs(bin_x) ==
    IF Len(bin_x) = 0 THEN <<>>
    ELSE (IF Head(bin_x) = 0 THEN <<1, 0>>
          ELSE IF Head(bin_x) = 1 THEN <<0, 1>>
          ELSE <<>>) \o BitPairs(Tail(bin_x))

\* decimal_x is an integer
BitNormalize(self, decimal_x) ==
    LET bin_x == ZFill(StrFrom(Bin(decimal_x), 2), self.num_bits)
    IN  IF \E i \in 1..Len(bin_x) : bin_x[i] \notin {"0", "1"}
        THEN Raise("ValueError")     \* int(b) of a character that is no digit
        ELSE Return(BitPairs(BitInts(bin_x)))

\* a variant of the base-2 parse that reads the least significant digit first
RECURSIVE ParseBinaryReversed(_)
ParseBinaryReversed(digits) ==
    IF Len(digits) = 0 THEN 0
    ELSE 2 * ParseBinaryReversed(Tail(digits))
         + (IF Head(digits) = "1" THEN 1 ELSE 0)

\* int(bits, 2) for bits = "0b" followed by the given binary digits
RECURSIVE ParseBinary(_)
ParseBinary(digits) ==
    IF Len(digits) = 0 THEN 0
    ELSE 2 * ParseBinary(SubSeq(digits, 1, Len(digits) - 1))
         + (IF digits[Len(digits)] = "1" THEN 1 ELSE 0)

\* a variant of denormalize that rejects only a list that is too short
BitDenormalizeShortOnly(self, bin_x) ==
    IF ~bin_x.is_list THEN Raise("Exception")
    ELSE IF Len(bin_x.v) < 2 * self.num_bits THEN Raise("AssertionError")
    ELSE LET bits == [i \in 1..self.num_bits |->
                         IF ArgMax(SubSeq(bin_x.v, 2 * i - 1, 2 * i)) = 0
                         THEN "0" ELSE "1"]
         IN  IF Len(bits) = 0 THEN Raise("ValueError")
             ELSE Return(ParseBinary(bits))

\* bin_x is [is_list |-> BOOLEAN, v |-> a sequence of numbers]
BitDenormalize(self, bin_x) ==
    IF ~bin_x.is_list THEN Raise("Exception")
    ELSE IF Len(bin_x.v) # 2 * self.num_bits THEN Raise("AssertionError")
    ELSE LET bits == [i \in 1..self.num_bits |->
                         IF ArgMax(SubSeq(bin_x.v, 2 * i - 1, 2 * i)) = 0
                         THEN "0" ELSE "1"]
         IN  IF Len(bits) = 0 THEN Raise("ValueError")   \* int("0b", 2)
             ELSE Return(ParseBinary(bits))

BitGetOutputType(self) ==
    [i \in 1..self.num_bits |->
        [type_ |-> "DISCRETE", dim |-> 2, normalization |-> "None"]]

(***************************************************************************)
(* The fields and the inputs of the model.                                 *)
(***************************************************************************)
Scalars == {FromInt(n) : n \in -MaxNum..MaxNum}

\* one-dimensional arrays of reals
Arrays == UNION {[1..n -> Scalars] : n \in 0..MaxDim}

\* the name a field is given
Names == {"f"}

LabelPool == <<"a", "b", "c", "d", "e", "f">>

Labels == {LabelPool[i] : i \in 1..MaxChoices}

\* the labels of a vocabulary, and one that no vocabulary holds
Values == Labels \cup {"z"}

\* sequences of distinct labels
Vocabularies ==
    {c \in UNION {[1..n -> Labels] : n \in 1..MaxChoices} :
        \A i, j \in 1..Len(c) : i # j => c[i] # c[j]}

\* the choices handed to DiscreteField: a vocabulary as a list or as a tuple
ChoicesInputs == {[is_list |-> l, v |-> c] : l \in BOOLEAN, c \in Vocabularies}

\* a single value, or a list of values
SingleInputs == {[is_list |-> FALSE, v |-> v] : v \in Values}

ListInputs ==
    {[is_list |-> TRUE, v |-> l] :
        l \in UNION {[1..n -> Values] : n \in 1..MaxBatch}}

Scores == 0..MaxScore

\* encoded rows handed to DiscreteField.denormalize: any row of scores up to
\* one column wider than the vocabulary
RowInputs(self) ==
    {[ndim |-> 1, v |-> r] :
        r \in UNION {[1..n -> Scores] : n \in 0..(Len(self.choices) + 1)}}

\* and two-row matrices of scores, as wide as the vocabulary
MatrixInputs(self) ==
    {[ndim |-> 2, v |-> m] : m \in [1..2 -> [1..Len(self.choices) -> Scores]]}

\* integers below 0, within num_bits bits and beyond them
DecimalInputs == -2..(Pow2(MaxBits + 1) - 1)

\* lists (and sequences that are no list) of up to 2 * num_bits + 1 scores
BitInputs(self) ==
    {[is_list |-> l, v |-> b] :
        l \in BOOLEAN,
        b \in UNION {[1..n -> Scores] : n \in 0..(2 * self.num_bits + 1)}}

NoOrig == [fed |-> FALSE, x |-> <<>>]

\* no object: the constructor raised
NoField == [cls |-> "none"]

(***************************************************************************)
(* The state machine.  A field is never written after construction, so     *)
(* the outcome of a call does not depend on the calls made before it: each *)
(* field is followed through one call, or through normalize and then       *)
(* denormalize of what normalize returned.  A constructor that raised      *)
(* leaves no object, and no method can be called.                          *)
(***************************************************************************)
\* the state a constructor call with arguments x and outcome r leaves
Constructed(x, r) ==
    /\ orig = NoOrig
    /\ IF Returned(r)
       THEN field = r.val /\ op = "init" /\ arg = <<>> /\ res = Return(<<>>)
       ELSE field = NoField /\ op = "__init__" /\ arg = x /\ res = r

Init ==
    \/ \E m \in NormOptions, a \in Scalars, b \in Scalars, k \in 1..MaxDim,
          n \in Names :
          Constructed(<<m, a, b, k, n>>, NewContinuousField(m, a, b, k, n))
    \/ \E c \in ChoicesInputs, n \in Names :
          Constructed(<<c, n>>, NewDiscreteField(c, n))
    \/ \E k \in 1..MaxBits, n \in Names :
          Constructed(<<k, n>>, NewBitField(k, n))

Call(name, x, r) ==
    /\ op' = name
    /\ arg' = x
    /\ res' = r
    /\ orig' = NoOrig
    /\ UNCHANGED field

\* denormalize is handed the value the preceding normalize returned
CallBack(y, r) ==
    /\ op = "normalize"
    /\ Returned(res)
    /\ op' = "denormalize"
    /\ arg' = y
    /\ res' = r
    /\ orig' = [fed |-> TRUE, x |-> arg]
    /\ UNCHANGED field

ContinuousFieldNormalize ==
    /\ op = "init"
    /\ field.cls = "ContinuousField"
    /\ \E x \in Arrays : Call("normalize", x, ContinuousNormalize(field, x))

ContinuousFieldDenormalize ==
    /\ op = "init"
    /\ field.cls = "ContinuousField"
    /\ \E y \in Arrays : Call("denormalize", y, ContinuousDenormalize(field, y))

ContinuousFieldRoundTrip ==
    /\ field.cls = "ContinuousField"
    /\ CallBack(res.val, ContinuousDenormalize(field, res.val))

ContinuousFieldGetOutputType ==
    /\ op = "init"
    /\ field.cls = "ContinuousField"
    /\ Call("getOutputType", <<>>, Return(ContinuousGetOutputType(field)))

DiscreteFieldNormalize ==
    /\ op = "init"
    /\ field.cls = "DiscreteField"
    /\ \/ \E x \in SingleInputs :
             Call("normalize", x, DiscreteNormalize(field, x))
       \/ \E x \in ListInputs :
             Call("normalize", x, DiscreteNormalize(field, x))

DiscreteFieldDenormalize ==
    /\ op = "init"
    /\ field.cls = "DiscreteField"
    /\ \/ \E y \in RowInputs(field) :
             Call("denormalize", y, DiscreteDenormalize(field, y))
       \/ \E y \in MatrixInputs(field) :
             Call("denormalize", y, DiscreteDenormalize(field, y))

DiscreteFieldRoundTrip ==
    /\ field.cls = "DiscreteField"
    /\ CallBack(res.val, DiscreteDenormalize(field, res.val))

DiscreteFieldGetOutputType ==
    /\ op = "init"
    /\ field.cls = "DiscreteField"
    /\ Call("getOutputType", <<>>, Return(DiscreteGetOutputType(field)))

BitFieldNormalize ==
    /\ op = "init"
    /\ field.cls = "BitField"
    /\ \E d \in DecimalInputs : Call("normalize", d, BitNormalize(field, d))

BitFieldDenormalize ==
    /\ op = "init"
    /\ field.cls = "BitField"
    /\ \E y \in BitInputs(field) :
          Call("denormalize", y, BitDenormalize(field, y))

\* normalize returns a list
BitFieldRoundTrip ==
    /\ field.cls = "BitField"
    /\ LET y == [is_list |-> TRUE, v |-> res.val]
       IN  CallBack(y, BitDenormalize(field, y))

BitFieldGetOutputType ==
    /\ op = "init"
    /\ field.cls = "BitField"
    /\ Call("getOutputType", <<>>, Return(BitGetOutputType(field)))

Next ==
    \/ ContinuousFieldNormalize
    \/ ContinuousFieldDenormalize
    \/ ContinuousFieldRoundTrip
    \/ ContinuousFieldGetOutputType
    \/ DiscreteFieldNormalize
    \/ DiscreteFieldDenormalize
    \/ DiscreteFieldRoundTrip
    \/ DiscreteFieldGetOutputType
    \/ BitFieldNormalize
    \/ BitFieldDenormalize
    \/ BitFieldRoundTrip
    \/ BitFieldGetOutputType

Spec == Init /\ [][Next]_vars

(***************************************************************************)
(* Properties.                                                             *)
(***************************************************************************)
\* bit i (0 is the most significant) of d written with n binary digits
BitOf(d, n, i) == (d \div Pow2(n - 1 - i)) % 2

InBitRange(self, d) == 0 <= d /\ d < Pow2(self.num_bits)

\* C1: for num_bits >= 1 and 0 <= d < 2^num_bits, BitField's denormalize of
\* what normalize returned for d returns exactly d.
C1_BitRoundTrip ==
    (/\ field.cls = "BitField"
     /\ op = "denormalize"
     /\ orig.fed
     /\ InBitRange(field, orig.x))
    => (Returned(res) /\ res.val = orig.x)

C1_Witness ==
    /\ field.cls = "BitField"
    /\ field.num_bits = 4
    /\ op = "denormalize"
    /\ orig.fed
    /\ orig.x = 5
    /\ arg.v = <<1, 0, 0, 1, 1, 0, 0, 1>>
    /\ Returned(res)
    /\ res.val = 5

\* C2: BitField.normalize(d) fails, returning no encoding, for every
\* integer d >= 2^num_bits.
C2_RangeError ==
    (/\ field.cls = "BitField"
     /\ op = "normalize"
     /\ arg >= Pow2(field.num_bits))
    => ~Returned(res)

RECURSIVE SumDims(_)
SumDims(outputs) ==
    IF Len(outputs) = 0 THEN 0 ELSE Head(outputs).dim + SumDims(Tail(outputs))

\* the total width of the descriptors getOutputType returns
OutputWidth(self) ==
    IF self.cls = "ContinuousField" THEN ContinuousGetOutputType(self).dim
    ELSE IF self.cls = "DiscreteField" THEN DiscreteGetOutputType(self).dim
    ELSE SumDims(BitGetOutputType(self))

\* C3: whenever normalize of a single sample returns, the vector it returns
\* is dim_x long, and dim_x is the total width of getOutputType's descriptors.
C3_WidthInvariant ==
    (op = "normalize" /\ Returned(res))
    => /\ field.dim_x = OutputWidth(field)
       /\ field.cls = "ContinuousField" => Len(res.val) = field.dim_x
       /\ (field.cls = "DiscreteField" /\ ~arg.is_list)
              => Len(res.val.v) = field.dim_x
       /\ field.cls = "BitField" => Len(res.val) = field.dim_x

\* C4: for 0 <= d < 2^num_bits, BitField.normalize(d) returns 2*num_bits
\* numbers whose i-th pair is [1,0] when the i-th most significant bit of d
\* is 0 and [0,1] when it is 1.
C4_BitEncoding ==
    (/\ field.cls = "BitField"
     /\ op = "normalize"
     /\ InBitRange(field, arg))
    => /\ Returned(res)
       /\ Len(res.val) = 2 * field.num_bits
       /\ \A i \in 0..(field.num_bits - 1) :
             LET b == BitOf(arg, field.num_bits, i)
             IN  /\ res.val[2 * i + 1] = 1 - b
                 /\ res.val[2 * i + 2] = b

C4_Witness ==
    /\ field.cls = "BitField"
    /\ field.num_bits = 4
    /\ op = "normalize"
    /\ arg = 5
    /\ Returned(res)
    /\ res.val = <<1, 0, 0, 1, 1, 0, 0, 1>>

\* the one-hot row of v over the vocabulary: all zeros when v is not in it
IsOneHotOf(row, choices, v) ==
    /\ Len(row) = Len(choices)
    /\ \A j \in 1..Len(choices) : row[j] = (IF choices[j] = v THEN 1 ELSE 0)

\* C5: DiscreteField.normalize always returns; for a single value the row
\* has a 1 exactly at the value's index in the vocabulary and is all zeros
\* for a value outside it; for a list, row i encodes element i that way.
C5_OneHot ==
    (field.cls = "DiscreteField" /\ op = "normalize")
    => /\ Returned(res)
       /\ ~arg.is_list => IsOneHotOf(res.val.v, field.choices, arg.v)
       /\ arg.is_list =>
             /\ Len(res.val.v) = Len(arg.v)
             /\ \A r \in 1..Len(arg.v) :
                   IsOneHotOf(res.val.v[r], field.choices, arg.v[r])

C5_Witness ==
    /\ field.cls = "DiscreteField"
    /\ field.choices = <<"a", "b", "c">>
    /\ op = "normalize"
    /\ arg.is_list
    /\ arg.v = <<"b", "z">>
    /\ Returned(res)
    /\ res.val.v = <<<<0, 1, 0>>, <<0, 0, 0>>>>

\* the lowest position (from 1) among those holding the maximum of row
LowestMax(row) ==
    CHOOSE i \in 1..Len(row) :
        /\ \A j \in 1..Len(row) : row[j] <= row[i]
        /\ \A j \in 1..Len(row) : row[j] = row[i] => i <= j

RowsOf(y) == IF y.ndim = 1 THEN <<y.v>> ELSE y.v

\* C6: for rows as long as the vocabulary, DiscreteField.denormalize returns
\* for each row the vocabulary entry at the lowest index holding the row's
\* maximum; for the all-zero row of an unknown category it returns the
\* first vocabulary entry.
C6_ArgMaxDecode ==
    (/\ field.cls = "DiscreteField"
     /\ op = "denormalize"
     /\ \A r \in 1..Len(RowsOf(arg)) : Len(RowsOf(arg)[r]) = Len(field.choices))
    => /\ Returned(res)
       /\ arg.ndim = 1 => res.val = field.choices[LowestMax(arg.v)]
       /\ arg.ndim = 2 =>
             /\ Len(res.val) = Len(arg.v)
             /\ \A r \in 1..Len(arg.v) :
                   res.val[r] = field.choices[LowestMax(arg.v[r])]
       /\ (orig.fed /\ ~orig.x.is_list /\ orig.x.v = "z")
              => res.val = field.choices[1]

C6_Witness ==
    /\ field.cls = "DiscreteField"
    /\ field.choices = <<"b", "a", "c">>
    /\ op = "denormalize"
    /\ orig.fed
    /\ ~orig.x.is_list
    /\ orig.x.v = "z"
    /\ arg.v = <<0, 0, 0>>
    /\ Returned(res)
    /\ res.val = "b"

ValidOption(self) == self.norm_option \in {"ZERO_ONE", "MINUSONE_ONE"}

\* what normalize maps min_x to
LowEnd(self) == IF self.norm_option = "ZERO_ONE" THEN FromInt(0) ELSE FromInt(-1)

\* C7: in both modes and for min_x < max_x, ContinuousField's denormalize of
\* what normalize returned for an x of the declared width within
\* [min_x, max_x] is x; normalize maps min_x to 0 (ZERO_ONE) or -1
\* (MINUSONE_ONE) and max_x to 1.
C7_ContinuousRoundTrip ==
    (/\ field.cls = "ContinuousField"
     /\ ValidOption(field)
     /\ FLess(field.min_x, field.max_x))
    => /\ (/\ op = "denormalize"
           /\ orig.fed
           /\ \A i \in 1..Len(orig.x) :
                 FLeq(field.min_x, orig.x[i]) /\ FLeq(orig.x[i], field.max_x))
          => (Returned(res) /\ res.val = orig.x)
       /\ (op = "normalize" /\ Len(arg) = field.dim_x)
          => /\ Returned(res)
             /\ \A i \in 1..Len(arg) :
                   /\ arg[i] = field.min_x => res.val[i] = LowEnd(field)
                   /\ arg[i] = field.max_x => res.val[i] = FromInt(1)

C7_Witness ==
    /\ field.cls = "ContinuousField"
    /\ field.norm_option = "MINUSONE_ONE"
    /\ field.min_x = FromInt(-1)
    /\ field.max_x = FromInt(2)
    /\ field.dim_x = 2
    /\ op = "denormalize"
    /\ orig.fed
    /\ orig.x = <<FromInt(0), FromInt(2)>>
    /\ arg = <<Num(-1, 3), FromInt(1)>>
    /\ Returned(res)
    /\ res.val = orig.x

\* C8: ContinuousField's normalize and denormalize raise the dimension error
\* whenever the input's trailing dimension differs from dim_x, whatever the
\* normalization option is.
C8_DimensionError ==
    (/\ field.cls = "ContinuousField"
     /\ op \in {"normalize", "denormalize"}
     /\ Len(arg) # field.dim_x)
    => res = Raise("ValueError")

C8_Witness ==
    /\ field.cls = "ContinuousField"
    /\ field.norm_option = "INVALID"
    /\ field.dim_x = 2
    /\ op = "normalize"
    /\ arg = <<FromInt(1)>>
    /\ res = Raise("ValueError")

\* C9: normalize on a ContinuousField with max_x = min_x raises, for every
\* input of the right width and in both modes, instead of returning.
C9_DegenerateRange ==
    (/\ field.cls = "ContinuousField"
     /\ ValidOption(field)
     /\ field.max_x = field.min_x
     /\ op = "normalize"
     /\ Len(arg) = field.dim_x)
    => ~Returned(res)

\* C10: BitField.denormalize fails for every input whose length is not
\* 2*num_bits; for a list of that length it returns an integer in
\* [0, 2^num_bits) whose i-th most significant bit is 1 exactly when entry
\* 2i+1 is strictly greater than entry 2i.
C10_BitDecode ==
    (field.cls = "BitField" /\ op = "denormalize")
    => /\ Len(arg.v) # 2 * field.num_bits => ~Returned(res)
       /\ (arg.is_list /\ Len(arg.v) = 2 * field.num_bits)
          => /\ Returned(res)
             /\ InBitRange(field, res.val)
             /\ \A i \in 0..(field.num_bits - 1) :
                   (BitOf(res.val, field.num_bits, i) = 1)
                       <=> (arg.v[2 * i + 2] > arg.v[2 * i + 1])

C10_Witness ==
    /\ field.cls = "BitField"
    /\ field.num_bits = 3
    /\ op = "denormalize"
    /\ ~orig.fed
    /\ arg.is_list
    /\ arg.v = <<1, 1, 0, 1, 1, 0>>
    /\ Returned(res)
    /\ res.val = 2

====
